---- MODULE Spec2Model ----
(***************************************************************************)
(* Model of the EIS (emulated input) receiver of cosmic-comp:              *)
(*   src/src/input/eis.rs  EisState (admission counter, add_connection,    *)
(*                         the per-connection event-source callback) and   *)
(*                         process_eis_request (request translator);       *)
(*   src/src/dbus/eis.rs   the socket channel that feeds add_connection.   *)
(*                                                                         *)
(* Coordinates are f64 in the source.  Finite values are modelled as       *)
(* integers counted in half pixels (Sub units per pixel), so that a point  *)
(* can lie strictly between the last pixel column x0+w-1 and the exclusive *)
(* edge x0+w of an output.  Non-finite values keep their own tags.         *)
(***************************************************************************)
EXTENDS Integers, Sequences, FiniteSets, TLC

VARIABLES
    active_connections,  \* EisState.active_connections (AtomicUsize)
    sessions,            \* event sources registered in the loop, in insertion order
    nSockets,            \* sockets delivered so far by the control bus
    nEvents,             \* socket events dispatched so far to the callbacks
    last,                \* the operation executed by the latest step
    calls,               \* host injection calls made by the latest step, in order
    pointerLoc,          \* host pointer location (global coordinates, half pixels)
    seat,                \* handles of the last active seat (keyboard/pointer/touch)
    activeOutput,        \* seat.active_output(): index into Outputs
    wire,                \* protocol and keymap-file operations of the latest step, in order
    shellOps,            \* shell lock operations and host calls of the latest step, in order
    eis_state,           \* state.common.eis_state (Option<EisState>) and the instances made
    pc,                  \* position of the loop thread inside add_connection
    current,             \* the local `current` of add_connection
    log                  \* host injection calls made so far, each with its session and event

vars == <<active_connections, sessions, nSockets, nEvents, last, calls,
          pointerLoc, seat, activeOutput, wire, shellOps, eis_state, pc, current, log>>

---------------------------------------------------------------------------
(* Program constants *)

MAX_EIS_CONNECTIONS == 8

MAX_EVDEV_KEYCODE == 767

MAX_TOUCH_ID == 256

(* Bounds of the model *)

\* sockets the control bus delivers in a run of Spec
MaxSockets == 2

\* sockets delivered beyond the cap in a run of SpecCap
ExtraSockets == 1

\* socket events dispatched in a run
MaxEvents == 3

\* magnitude (half pixels) of a motion that leaves every output
Far == 20

\* half-pixel units per pixel
Sub == 2

---------------------------------------------------------------------------
(* f32/f64 values: finite (an integer number of half pixels) or not *)

Fin(n) == [k |-> "fin", v |-> n]

NaN == [k |-> "nan", v |-> 0]

PosInf == [k |-> "pinf", v |-> 0]

NegInf == [k |-> "ninf", v |-> 0]

is_finite(f) == f.k = "fin"

\* f64::clamp(min, max), defined for min <= max
clamp(v, lo, hi) == IF v < lo THEN lo ELSE IF v > hi THEN hi ELSE v

---------------------------------------------------------------------------
(* Host layout: the shell's outputs, in iteration order.  Geometry is in   *)
(* pixels (integers), as smithay's Rectangle<i32, Global>.                 *)

Outputs == << [x0 |-> 0, y0 |-> 0, w |-> 2, h |-> 1],
              [x0 |-> 2, y0 |-> 0, w |-> 1, h |-> 2] >>

OutputIds == 1..Len(Outputs)

\* o.geometry().to_f64().contains(position): half-open on both axes
contains(g, p) ==
    /\ p.x >= Sub * g.x0
    /\ p.x < Sub * (g.x0 + g.w)
    /\ p.y >= Sub * g.y0
    /\ p.y < Sub * (g.y0 + g.h)

\* shell.outputs().find(|o| contains).unwrap_or_else(|| seat.active_output())
find_output(p, active) ==
    IF \E i \in OutputIds : contains(Outputs[i], p)
    THEN CHOOSE i \in OutputIds :
            /\ contains(Outputs[i], p)
            /\ \A j \in OutputIds : contains(Outputs[j], p) => i <= j
    ELSE active

---------------------------------------------------------------------------
(* Request translator: process_eis_request.  Each handler yields the host  *)
(* injection calls it makes, in order, the pointer location it leaves, and *)
(* (lock) the order in which it takes the shell read lock, releases it and *)
(* makes its calls.                                                        *)

\* a request rejected by validation: the arm returns before it reads the shell
NoEffect(loc) == [calls |-> <<>>, loc |-> loc, lock |-> <<>>]

\* the seat has no handle for the request: the shell was read, nothing injected
NoHandle(loc) == [calls |-> <<>>, loc |-> loc, lock |-> <<"shell.read", "shell.drop">>]

\* a handler that resolved its values under the read lock, released it, and
\* then made the calls c
Inject(c, loc) ==
    [calls |-> c, loc |-> loc,
     lock |-> <<"shell.read", "shell.drop">> \o [i \in 1..Len(c) |-> c[i].op]]

\* HandleKeyboardKey without the keycode range check
HandleKeyboardKey_unchecked(r, loc, st) ==
    IF st.keyboard
    THEN Inject(<< [op |-> "keyboard.input", key |-> r.key,
                    state |-> IF r.state = "Press" THEN "Pressed" ELSE "Released"] >>, loc)
    ELSE NoHandle(loc)

\* HandleKeyboardKey rejecting the last valid keycode as well
HandleKeyboardKey_exclusive(r, loc, st) ==
    IF r.key >= MAX_EVDEV_KEYCODE THEN NoEffect(loc)
    ELSE IF st.keyboard
    THEN Inject(<< [op |-> "keyboard.input", key |-> r.key,
                    state |-> IF r.state = "Press" THEN "Pressed" ELSE "Released"] >>, loc)
    ELSE NoHandle(loc)

\* EisRequest::KeyboardKey
HandleKeyboardKey(r, loc, st) ==
    IF r.key > MAX_EVDEV_KEYCODE THEN NoEffect(loc)
    ELSE IF st.keyboard
    THEN Inject(<< [op |-> "keyboard.input", key |-> r.key,
                    state |-> IF r.state = "Press" THEN "Pressed" ELSE "Released"] >>, loc)
    ELSE NoHandle(loc)

\* MotionTarget clamping to the exclusive edge x0+w, y0+h
MotionTarget_exclusive_edge(loc, dx, dy, active) ==
    LET position == [x |-> loc.x + dx.v, y |-> loc.y + dy.v]
        output == find_output(position, active)
        geom == Outputs[output]
    IN [output |-> output,
        x |-> clamp(position.x, Sub * geom.x0, Sub * (geom.x0 + geom.w)),
        y |-> clamp(position.y, Sub * geom.y0, Sub * (geom.y0 + geom.h))]

\* position after `position.x += dx; position.y += dy` and the clamp to the
\* geometry of the output found for it
MotionTarget(loc, dx, dy, active) ==
    LET position == [x |-> loc.x + dx.v, y |-> loc.y + dy.v]
        output == find_output(position, active)
        geom == Outputs[output]
    IN [output |-> output,
        x |-> clamp(position.x, Sub * geom.x0, Sub * (geom.x0 + geom.w - 1)),
        y |-> clamp(position.y, Sub * geom.y0, Sub * (geom.y0 + geom.h - 1))]

\* HandlePointerMotion with std::mem::drop(shell) after pointer.motion
HandlePointerMotion_late_drop(r, loc, st, active) ==
    IF ~is_finite(r.dx) \/ ~is_finite(r.dy) THEN NoEffect(loc)
    ELSE IF st.pointer
    THEN LET t == MotionTarget(loc, r.dx, r.dy, active)
         IN [calls |-> << [op |-> "pointer.motion", x |-> t.x, y |-> t.y, output |-> t.output],
                          [op |-> "pointer.frame"] >>,
             loc |-> [x |-> t.x, y |-> t.y],
             lock |-> <<"shell.read", "pointer.motion", "shell.drop", "pointer.frame">>]
    ELSE NoHandle(loc)

\* EisRequest::PointerMotion
HandlePointerMotion(r, loc, st, active) ==
    IF ~is_finite(r.dx) \/ ~is_finite(r.dy) THEN NoEffect(loc)
    ELSE IF st.pointer
    THEN LET t == MotionTarget(loc, r.dx, r.dy, active)
         IN [calls |-> << [op |-> "pointer.motion", x |-> t.x, y |-> t.y, output |-> t.output],
                          [op |-> "pointer.frame"] >>,
             loc |-> [x |-> t.x, y |-> t.y],
             lock |-> <<"shell.read", "shell.drop", "pointer.motion", "pointer.frame">>]
    ELSE NoHandle(loc)

\* EisRequest::PointerMotionAbsolute
HandlePointerMotionAbsolute(r, loc, st, active) ==
    IF ~is_finite(r.dx_absolute) \/ ~is_finite(r.dy_absolute) THEN NoEffect(loc)
    ELSE IF st.pointer
    THEN LET position == [x |-> r.dx_absolute.v, y |-> r.dy_absolute.v]
             output == find_output(position, active)
         IN [calls |-> << [op |-> "pointer.motion", x |-> position.x, y |-> position.y,
                           output |-> output],
                          [op |-> "pointer.frame"] >>,
             loc |-> position,
             lock |-> <<"shell.read", "shell.drop", "pointer.motion", "pointer.frame">>]
    ELSE NoHandle(loc)

\* EisRequest::Button
HandleButton(r, loc, st) ==
    IF r.button > MAX_EVDEV_KEYCODE THEN NoEffect(loc)
    ELSE IF st.pointer
    THEN Inject(<< [op |-> "pointer.button", button |-> r.button,
                    state |-> IF r.state = "Press" THEN "Pressed" ELSE "Released"],
                   [op |-> "pointer.frame"] >>, loc)
    ELSE NoHandle(loc)

\* HandleScrollDelta checking only dx for finiteness
HandleScrollDelta_dx_only(r, loc, st) ==
    IF ~is_finite(r.dx) THEN NoEffect(loc)
    ELSE IF st.pointer
    THEN Inject(<< [op |-> "pointer.axis",
                    vertical |-> IF r.dy.v # 0 THEN <<r.dy.v>> ELSE <<>>,
                    horizontal |-> IF r.dx.v # 0 THEN <<r.dx.v>> ELSE <<>>],
                   [op |-> "pointer.frame"] >>, loc)
    ELSE NoHandle(loc)

\* HandleScrollDelta testing the sign of the deltas instead of abs() > 0.0
HandleScrollDelta_no_abs(r, loc, st) ==
    IF ~is_finite(r.dx) \/ ~is_finite(r.dy) THEN NoEffect(loc)
    ELSE IF st.pointer
    THEN Inject(<< [op |-> "pointer.axis",
                    vertical |-> IF r.dy.v > 0 THEN <<r.dy.v>> ELSE <<>>,
                    horizontal |-> IF r.dx.v > 0 THEN <<r.dx.v>> ELSE <<>>],
                   [op |-> "pointer.frame"] >>, loc)
    ELSE NoHandle(loc)

\* EisRequest::ScrollDelta
HandleScrollDelta(r, loc, st) ==
    IF ~is_finite(r.dx) \/ ~is_finite(r.dy) THEN NoEffect(loc)
    ELSE IF st.pointer
    THEN Inject(<< [op |-> "pointer.axis",
                    vertical |-> IF r.dy.v # 0 THEN <<r.dy.v>> ELSE <<>>,
                    horizontal |-> IF r.dx.v # 0 THEN <<r.dx.v>> ELSE <<>>],
                   [op |-> "pointer.frame"] >>, loc)
    ELSE NoHandle(loc)

\* EisRequest::TouchDown; the seat and target come from resolve_touch_target,
\* which takes the read lock and releases it on return
HandleTouchDown(r, loc, st) ==
    IF r.touch_id > MAX_TOUCH_ID THEN NoEffect(loc)
    ELSE IF ~is_finite(r.x) \/ ~is_finite(r.y) THEN NoEffect(loc)
    ELSE IF st.touch
    THEN Inject(<< [op |-> "touch.down", slot |-> r.touch_id, x |-> r.x.v, y |-> r.y.v],
                   [op |-> "touch.frame"] >>, loc)
    ELSE NoHandle(loc)

\* EisRequest::TouchMotion
HandleTouchMotion(r, loc, st) ==
    IF r.touch_id > MAX_TOUCH_ID THEN NoEffect(loc)
    ELSE IF ~is_finite(r.x) \/ ~is_finite(r.y) THEN NoEffect(loc)
    ELSE IF st.touch
    THEN Inject(<< [op |-> "touch.motion", slot |-> r.touch_id, x |-> r.x.v, y |-> r.y.v],
                   [op |-> "touch.frame"] >>, loc)
    ELSE NoHandle(loc)

\* HandleTouchUp with the identifier check of TouchDown
HandleTouchUp_checked(r, loc, st) ==
    IF r.touch_id > MAX_TOUCH_ID THEN NoEffect(loc)
    ELSE IF st.touch
    THEN Inject(<< [op |-> "touch.up", slot |-> r.touch_id], [op |-> "touch.frame"] >>, loc)
    ELSE NoHandle(loc)

\* EisRequest::TouchUp
HandleTouchUp(r, loc, st) ==
    IF st.touch
    THEN Inject(<< [op |-> "touch.up", slot |-> r.touch_id], [op |-> "touch.frame"] >>, loc)
    ELSE NoHandle(loc)

\* EisRequest::TouchCancel
HandleTouchCancel(r, loc, st) ==
    IF st.touch
    THEN Inject(<< [op |-> "touch.cancel"], [op |-> "touch.frame"] >>, loc)
    ELSE NoHandle(loc)

\* process_eis_request: the match on the request
process_eis_request(r, loc, st, active) ==
    CASE r.kind = "KeyboardKey" -> HandleKeyboardKey(r, loc, st)
      [] r.kind = "PointerMotion" -> HandlePointerMotion(r, loc, st, active)
      [] r.kind = "PointerMotionAbsolute" -> HandlePointerMotionAbsolute(r, loc, st, active)
      [] r.kind = "Button" -> HandleButton(r, loc, st)
      [] r.kind = "ScrollDelta" -> HandleScrollDelta(r, loc, st)
      [] r.kind = "TouchDown" -> HandleTouchDown(r, loc, st)
      [] r.kind = "TouchMotion" -> HandleTouchMotion(r, loc, st)
      [] r.kind = "TouchUp" -> HandleTouchUp(r, loc, st)
      [] r.kind = "TouchCancel" -> HandleTouchCancel(r, loc, st)
      [] OTHER -> NoEffect(loc)

---------------------------------------------------------------------------
(* Keymap provider and the Bind arm *)

\* bytes of the keymap text that xkb compiles
KeymapLen == 3

\* how prepare_xkb_keymap_fd can end: success, a seal the platform refuses, or
\* a failure of the compilation, of memfd_create, or of one of the two writes
KeymapOutcomes ==
    {"ok", "seal_failed", "compile_failed", "memfd_failed", "write_text_failed",
     "write_nul_failed"}

FileOp(op, ok, n) == [op |-> op, ok |-> ok, n |-> n]

\* prepare_xkb_keymap_fd: the file operations made, and the Option returned
\* (some, with size = text length + 1)
prepare_xkb_keymap_fd(outcome) ==
    LET compile == FileOp("xkb.compile", outcome # "compile_failed", KeymapLen)
        create == FileOp("memfd.create", outcome # "memfd_failed", 0)
        text == FileOp("memfd.write_text", outcome # "write_text_failed", KeymapLen)
        nul == FileOp("memfd.write_nul", outcome # "write_nul_failed", 1)
        seal == FileOp("memfd.seal", outcome # "seal_failed", 0)
        none(ops) == [some |-> FALSE, size |-> 0, ops |-> ops]
    IN CASE outcome = "compile_failed" -> none(<<compile>>)
         [] outcome = "memfd_failed" -> none(<<compile, create>>)
         [] outcome = "write_text_failed" -> none(<<compile, create, text>>)
         [] outcome = "write_nul_failed" -> none(<<compile, create, text, nul>>)
         [] OTHER -> [some |-> TRUE, size |-> KeymapLen + 1,
                      ops |-> <<compile, create, text, nul, seal>>]

\* keymap_fd when the mask has no keyboard capability
NoKeymap == [some |-> FALSE, size |-> 0, ops |-> <<>>]

\* HandleBind resuming the device before the keymap is sent
HandleBind_resume_first(r, km, flush_ok) ==
    LET keymap_fd == IF "Keyboard" \in r.capabilities THEN prepare_xkb_keymap_fd(km)
                     ELSE NoKeymap
    IN keymap_fd.ops
         \o << [op |-> "seat.add_device", ok |-> TRUE, n |-> 0, caps |-> r.capabilities],
               FileOp("device.done", TRUE, 0),
               FileOp("device.resumed", TRUE, 0) >>
         \o (IF keymap_fd.some /\ "Keyboard" \in r.capabilities
             THEN << FileOp("keyboard.keymap", TRUE, keymap_fd.size) >>
             ELSE <<>>)
         \o << FileOp("connection.flush", flush_ok, 0) >>

\* HandleBind giving up on the device when no keymap could be prepared
HandleBind_keymap_required(r, km, flush_ok) ==
    LET keymap_fd == IF "Keyboard" \in r.capabilities THEN prepare_xkb_keymap_fd(km)
                     ELSE NoKeymap
    IN IF "Keyboard" \in r.capabilities /\ ~keymap_fd.some
       THEN keymap_fd.ops
       ELSE keymap_fd.ops
              \o << [op |-> "seat.add_device", ok |-> TRUE, n |-> 0, caps |-> r.capabilities] >>
              \o (IF keymap_fd.some /\ "Keyboard" \in r.capabilities
                  THEN << FileOp("keyboard.keymap", TRUE, keymap_fd.size) >>
                  ELSE <<>>)
              \o << FileOp("device.done", TRUE, 0),
                    FileOp("device.resumed", TRUE, 0),
                    FileOp("connection.flush", flush_ok, 0) >>

\* EisRequest::Bind: the operations of the arm in order.  The keymap is sent
\* from the closure that seat.add_device runs before device.done()
HandleBind(r, km, flush_ok) ==
    LET keymap_fd == IF "Keyboard" \in r.capabilities THEN prepare_xkb_keymap_fd(km)
                     ELSE NoKeymap
    IN keymap_fd.ops
         \o << [op |-> "seat.add_device", ok |-> TRUE, n |-> 0, caps |-> r.capabilities] >>
         \o (IF keymap_fd.some /\ "Keyboard" \in r.capabilities
             THEN << FileOp("keyboard.keymap", TRUE, keymap_fd.size) >>
             ELSE <<>>)
         \o << FileOp("device.done", TRUE, 0),
               FileOp("device.resumed", TRUE, 0),
               FileOp("connection.flush", flush_ok, 0) >>

\* SeatCapabilities without the touch capability
SeatCapabilities_no_touch == {"Keyboard", "Pointer", "PointerAbsolute", "Button", "Scroll"}

\* the capabilities of the seat announced on Connected
SeatCapabilities == {"Keyboard", "Pointer", "PointerAbsolute", "Button", "Scroll", "Touch"}

---------------------------------------------------------------------------
(* Inputs: the requests a peer sends, drawn from small sets that contain   *)
(* both sides of every validity check.                                     *)

KeyCodes == {16, MAX_EVDEV_KEYCODE, MAX_EVDEV_KEYCODE + 1}

ButtonCodes == {272, MAX_EVDEV_KEYCODE, MAX_EVDEV_KEYCODE + 1}

TouchIds == {0, MAX_TOUCH_ID, MAX_TOUCH_ID + 1}

PressStates == {"Press", "Released"}

DeltaVals == {NaN, PosInf, NegInf, Fin(0 - Far), Fin(0 - 1), Fin(2), Fin(Far)}

AbsVals == {NaN, PosInf, Fin(3), Fin(Far)}

ScrollVals == {NaN, NegInf, Fin(0), Fin(0 - 1)}

TouchVals == {NaN, Fin(1)}

KeyRequests == [kind : {"KeyboardKey"}, key : KeyCodes, state : PressStates]

MotionRequests == [kind : {"PointerMotion"}, dx : DeltaVals, dy : DeltaVals]

AbsRequests == [kind : {"PointerMotionAbsolute"}, dx_absolute : AbsVals, dy_absolute : AbsVals]

ButtonRequests == [kind : {"Button"}, button : ButtonCodes, state : PressStates]

ScrollRequests == [kind : {"ScrollDelta"}, dx : ScrollVals, dy : ScrollVals]

TouchRequests ==
    [kind : {"TouchDown", "TouchMotion"}, touch_id : TouchIds, x : TouchVals, y : TouchVals]
      \cup [kind : {"TouchUp"}, touch_id : TouchIds]
      \cup [kind : {"TouchCancel"}]

ControlRequests ==
    [kind : {"Disconnect", "DeviceStartEmulating", "DeviceStopEmulating", "Frame"}]

Requests ==
    KeyRequests \cup MotionRequests \cup AbsRequests \cup ButtonRequests
      \cup ScrollRequests \cup TouchRequests \cup ControlRequests

\* the requests used where the admission cap is exercised
CapRequests == [kind : {"Disconnect"}] \cup [kind : {"KeyboardKey"}, key : {16}, state : {"Press"}]

\* capability masks a peer binds with
BindMasks == {{"Keyboard"}, {"Pointer", "Button"}, SeatCapabilities}

BindRequests == [kind : {"Bind"}, capabilities : BindMasks]

NoRequest == [kind |-> "None"]

---------------------------------------------------------------------------
(* State *)

Sids == 1..Len(sessions)

\* seats are created with keyboard, pointer and touch handles
HostSeat == [keyboard |-> TRUE, pointer |-> TRUE, touch |-> TRUE]

\* an event source just registered by insert_source: handshake not yet done
NewSession ==
    [st |-> "Handshaking", seats |-> 0, devices |-> 0, disconnected |-> FALSE,
     todo |-> <<>>, serving |-> 0]

LastAdd(outcome, seen, sess) ==
    [op |-> "add", outcome |-> outcome, seen |-> seen, sess |-> sess,
     ev |-> "None", req |-> NoRequest, flush |-> TRUE]

LastEvent(sess, ev, req, flush) ==
    [op |-> "event", outcome |-> "none", seen |-> 0, sess |-> sess,
     ev |-> ev, req |-> req, flush |-> flush]

\* state.common.eis_state before the first socket: None, no EisState made yet
NoEisState == [some |-> FALSE, made |-> 0]

\* Some(EisState) made by one call of EisState::new
FirstEisState == [some |-> TRUE, made |-> 1]

\* the compositor state with the given eis_state and no socket delivered yet
InitWith(es) ==
    /\ eis_state = es
    /\ active_connections = 0
    /\ sessions = <<>>
    /\ nSockets = 0
    /\ nEvents = 0
    /\ last = [op |-> "init", outcome |-> "none", seen |-> 0, sess |-> 0,
               ev |-> "None", req |-> NoRequest, flush |-> TRUE]
    /\ calls = <<>>
    /\ pointerLoc = [x |-> 0, y |-> 0]
    /\ seat = HostSeat
    /\ activeOutput \in OutputIds
    /\ wire = <<>>
    /\ shellOps = <<>>
    /\ pc = "idle"
    /\ current = 0
    /\ log = <<>>

\* the socket channel is registered; eis_state is still None
Init == InitWith(NoEisState)

\* an EisState exists already
InitSteps == InitWith(FirstEisState)

---------------------------------------------------------------------------
(* EisState::add_connection *)

\* the loop thread is in no callback: not inside add_connection, and no
\* request handler has injection calls left to make
LoopIdle ==
    /\ pc = "idle"
    /\ \A t \in 1..Len(sessions) : sessions[t].todo = <<>>

\* below_limit with the comparison off by one
below_limit_inclusive(cur) == ~(cur > MAX_EIS_CONNECTIONS)

\* the limit check: the connection goes on iff `current >= MAX` is false
below_limit(cur) == ~(cur >= MAX_EIS_CONNECTIONS)

\* after_setup without the fetch_sub of the failure paths
after_setup_leaky(counter, setup) == counter

\* the counter after the setup that follows fetch_add: a failure of
\* eis::Context::new or of insert_source takes the increment back
after_setup(counter, setup) == IF setup = "ok" THEN counter ELSE counter - 1

SetupOutcomes == {"ok", "ctx_failed", "insert_failed"}

\* the whole of add_connection, run on the loop thread for one delivered socket,
\* on the EisState whose active_connections is counter
AddConnection(counter, budget, setup) ==
    /\ nSockets < budget
    /\ LoopIdle
    /\ nSockets' = nSockets + 1
    /\ LET cur == counter IN
       IF ~below_limit(cur)
       THEN /\ last' = LastAdd("rejected", cur, 0)
            /\ active_connections' = counter
            /\ sessions' = sessions
       ELSE /\ active_connections' = after_setup(counter + 1, setup)
            /\ IF setup = "ok"
               THEN /\ sessions' = Append(sessions, NewSession)
                    /\ last' = LastAdd("admitted", cur, Len(sessions) + 1)
               ELSE /\ sessions' = sessions
                    /\ last' = LastAdd(setup, cur, 0)
    /\ calls' = <<>>
    /\ wire' = <<>>
    /\ shellOps' = <<>>
    /\ UNCHANGED <<nEvents, pointerLoc, seat, activeOutput, pc, current, log>>

---------------------------------------------------------------------------
(* The socket channel callback of init (dbus/eis.rs) *)

\* results of EisState::new: its body returns Ok(Self { .. }) on every path
EisStateNewResults == {"Ok"}

\* ensure_eis_state without the is_none test: a new EisState for every socket
ensure_eis_state_always_new(es, result) ==
    IF result = "Ok" THEN [some |-> TRUE, made |-> es.made + 1] ELSE es

\* if eis_state.is_none() { match EisState::new(..) { Ok => Some(..), Err => return } }
ensure_eis_state(es, result) ==
    IF ~es.some
    THEN IF result = "Ok" THEN [some |-> TRUE, made |-> es.made + 1] ELSE es
    ELSE es

\* channel::Event::Msg(stream): create the EisState if there is none, then
\* add the connection to it; without an EisState the stream is dropped
SocketMsg(budget, setup, result) ==
    LET es == ensure_eis_state(eis_state, result) IN
    /\ eis_state' = es
    /\ IF es.some
       THEN AddConnection(IF es.made # eis_state.made THEN 0 ELSE active_connections,
                          budget, setup)
       ELSE /\ nSockets < budget
            /\ LoopIdle
            /\ nSockets' = nSockets + 1
            /\ last' = LastAdd("no_state", 0, 0)
            /\ calls' = <<>>
            /\ wire' = <<>>
            /\ shellOps' = <<>>
            /\ UNCHANGED <<active_connections, sessions, nEvents, pointerLoc, seat,
                           activeOutput, pc, current, log>>

---------------------------------------------------------------------------
(* The event-source callback given to insert_source *)

\* post_action dropping the source on a protocol error
post_action_remove_on_err(ev, r) == IF ev = "Err" THEN "Remove" ELSE "Continue"

\* what the callback returns to the loop, for every event
post_action(ev, r) == "Continue"

\* the status of a source after its callback returned
after_callback(st, action) == IF action = "Remove" THEN "Removed" ELSE st

\* Ok(EisRequestSourceEvent::Connected): the handshake completed; one seat is
\* announced and flushed (a flush failure is only logged)
Connected(s, flush_ok) ==
    /\ nEvents < MaxEvents
    /\ sessions[s].st = "Handshaking"
    /\ sessions' = [sessions EXCEPT ![s] =
            [@ EXCEPT !.st = after_callback("Active", post_action("Connected", NoRequest)),
                      !.seats = @ + 1]]
    /\ nEvents' = nEvents + 1
    /\ last' = LastEvent(s, "Connected", NoRequest, flush_ok)
    /\ calls' = <<>>
    /\ wire' = << [op |-> "connection.add_seat", ok |-> TRUE, n |-> 0,
                    caps |-> SeatCapabilities],
                   FileOp("connection.flush", flush_ok, 0) >>
    /\ shellOps' = <<>>
    /\ UNCHANGED <<active_connections, nSockets, pointerLoc, seat, activeOutput, eis_state, pc,
                   current, log>>

\* Request translating only for a session that has bound a device
Request_bound_only(s, r) ==
    /\ nEvents < MaxEvents
    /\ sessions[s].st = "Active"
    /\ LET eff == IF sessions[s].devices = 0 THEN NoEffect(pointerLoc)
                ELSE process_eis_request(r, pointerLoc, seat, activeOutput) IN
         /\ calls' = eff.calls
         /\ pointerLoc' = eff.loc
         /\ shellOps' = eff.lock
    /\ wire' = <<>>
    /\ sessions' = [sessions EXCEPT ![s] =
            [@ EXCEPT !.st = after_callback(@, post_action("Request", r)),
                      !.disconnected = @ \/ r.kind = "Disconnect"]]
    /\ nEvents' = nEvents + 1
    /\ last' = LastEvent(s, "Request", r, TRUE)
    /\ UNCHANGED <<active_connections, nSockets, seat, activeOutput, eis_state, pc,
                   current, log>>

\* Ok(EisRequestSourceEvent::Request(request)): process_eis_request
Request(s, r) ==
    /\ nEvents < MaxEvents
    /\ sessions[s].st = "Active"
    /\ LET eff == process_eis_request(r, pointerLoc, seat, activeOutput) IN
         /\ calls' = eff.calls
         /\ pointerLoc' = eff.loc
         /\ shellOps' = eff.lock
    /\ wire' = <<>>
    /\ sessions' = [sessions EXCEPT ![s] =
            [@ EXCEPT !.st = after_callback(@, post_action("Request", r)),
                      !.disconnected = @ \/ r.kind = "Disconnect"]]
    /\ nEvents' = nEvents + 1
    /\ last' = LastEvent(s, "Request", r, TRUE)
    /\ UNCHANGED <<active_connections, nSockets, seat, activeOutput, eis_state, pc,
                   current, log>>

\* Ok(EisRequestSourceEvent::Request(EisRequest::Bind)): process_eis_request
\* creates a device on the bound seat; km is how the keymap provider ends
Bind(s, r, km, flush_ok) ==
    /\ nEvents < MaxEvents
    /\ sessions[s].st = "Active"
    /\ "Keyboard" \notin r.capabilities => km = "ok"
    /\ wire' = HandleBind(r, km, flush_ok)
    /\ calls' = <<>>
    /\ shellOps' = <<>>
    /\ sessions' = [sessions EXCEPT ![s] =
            [@ EXCEPT !.st = after_callback(@, post_action("Request", r)),
                      !.devices = @ + 1]]
    /\ nEvents' = nEvents + 1
    /\ last' = LastEvent(s, "Request", r, flush_ok)
    /\ UNCHANGED <<active_connections, nSockets, pointerLoc, seat, activeOutput, eis_state, pc,
                   current, log>>

\* Err(e): the protocol error is logged
ProtocolError(s) ==
    /\ nEvents < MaxEvents
    /\ sessions[s].st = "Active"
    /\ sessions' = [sessions EXCEPT ![s] =
            [@ EXCEPT !.st = after_callback(@, post_action("Err", NoRequest))]]
    /\ nEvents' = nEvents + 1
    /\ last' = LastEvent(s, "Err", NoRequest, TRUE)
    /\ calls' = <<>>
    /\ wire' = <<>>
    /\ shellOps' = <<>>
    /\ UNCHANGED <<active_connections, nSockets, pointerLoc, seat, activeOutput, eis_state, pc,
                   current, log>>

\* end of stream on the socket: the request source ends and the loop drops it;
\* nothing of EisState is involved
EndOfStream(s) ==
    /\ nEvents < MaxEvents
    /\ sessions[s].st \in {"Handshaking", "Active"}
    /\ sessions' = [sessions EXCEPT ![s] = [@ EXCEPT !.st = "Removed"]]
    /\ nEvents' = nEvents + 1
    /\ last' = LastEvent(s, "Eof", NoRequest, TRUE)
    /\ calls' = <<>>
    /\ wire' = <<>>
    /\ shellOps' = <<>>
    /\ UNCHANGED <<active_connections, nSockets, pointerLoc, seat, activeOutput, eis_state, pc,
                   current, log>>

---------------------------------------------------------------------------
(* Specifications *)

\* sockets and requests of every kind, on the loop thread
Next ==
    \/ \E setup \in SetupOutcomes, res \in EisStateNewResults :
          SocketMsg(MaxSockets, setup, res)
    \/ \E s \in Sids, f \in BOOLEAN : Connected(s, f)
    \/ \E s \in Sids, r \in Requests : Request(s, r)
    \/ \E s \in Sids, r \in BindRequests, km \in KeymapOutcomes, f \in BOOLEAN : Bind(s, r, km, f)
    \/ \E s \in Sids : ProtocolError(s)
    \/ \E s \in Sids : EndOfStream(s)

Spec == Init /\ [][Next]_vars

\* enough sockets to reach the admission cap
NextCap ==
    \/ \E setup \in SetupOutcomes, res \in EisStateNewResults :
          SocketMsg(MAX_EIS_CONNECTIONS + ExtraSockets, setup, res)
    \/ \E s \in Sids, f \in BOOLEAN : Connected(s, f)
    \/ \E s \in Sids, r \in CapRequests : Request(s, r)
    \/ \E s \in Sids : ProtocolError(s)
    \/ \E s \in Sids : EndOfStream(s)

SpecCap == Init /\ [][NextCap]_vars

---------------------------------------------------------------------------
(* add_connection step by step on the loop thread: the load (line 61), the *)
(* limit check with the fetch_add (lines 62-70), and the setup of the      *)
(* context and the event source (lines 71-122).  The next socket message   *)
(* is taken when the callback has returned.                                *)

\* AdmitLoad keeping the value loaded by the previous call
AdmitLoad_cached ==
    /\ pc = "idle"
    /\ nSockets < MAX_EIS_CONNECTIONS + ExtraSockets
    /\ nSockets' = nSockets + 1
    /\ current' = current
    /\ pc' = "loaded"
    /\ UNCHANGED <<eis_state, active_connections, sessions, nEvents, last, calls, pointerLoc,
                   seat, activeOutput, wire, shellOps, log>>

\* let current = self.active_connections.load(Acquire)
AdmitLoad ==
    /\ pc = "idle"
    /\ nSockets < MAX_EIS_CONNECTIONS + ExtraSockets
    /\ nSockets' = nSockets + 1
    /\ current' = active_connections
    /\ pc' = "loaded"
    /\ UNCHANGED <<eis_state, active_connections, sessions, nEvents, last, calls, pointerLoc,
                   seat, activeOutput, wire, shellOps, log>>

\* if current >= MAX { return }  self.active_connections.fetch_add(1, AcqRel)
AdmitCheck ==
    /\ pc = "loaded"
    /\ IF ~below_limit(current)
       THEN /\ pc' = "idle"
            /\ last' = LastAdd("rejected", current, 0)
            /\ UNCHANGED active_connections
       ELSE /\ pc' = "admitted"
            /\ active_connections' = active_connections + 1
            /\ UNCHANGED last
    /\ UNCHANGED <<eis_state, sessions, nSockets, nEvents, calls, pointerLoc, seat,
                   activeOutput, wire, shellOps, current, log>>

\* eis::Context::new, EisRequestSource::new, insert_source
AdmitSetup(setup) ==
    /\ pc = "admitted"
    /\ pc' = "idle"
    /\ active_connections' = after_setup(active_connections, setup)
    /\ IF setup = "ok"
       THEN /\ sessions' = Append(sessions, NewSession)
            /\ last' = LastAdd("admitted", current, Len(sessions) + 1)
       ELSE /\ sessions' = sessions
            /\ last' = LastAdd(setup, current, 0)
    /\ UNCHANGED <<eis_state, nSockets, nEvents, calls, pointerLoc, seat, activeOutput, wire,
                   shellOps, current, log>>

NextSteps ==
    \/ AdmitLoad
    \/ AdmitCheck
    \/ \E setup \in SetupOutcomes : AdmitSetup(setup)

SpecSteps == InitSteps /\ [][NextSteps]_vars

---------------------------------------------------------------------------
(* A request handler call by call: the callback is entered with the loop's *)
(* `&mut State` (eis.rs:85, 128-129), makes its injection calls in order   *)
(* and returns; the loop then takes the next event.                        *)

\* events dispatched when the handlers run call by call
LoopEvents == 4

LoopRequests ==
    [kind : {"KeyboardKey"}, key : {16}, state : {"Press"}]
      \cup [kind : {"PointerMotion"}, dx : {Fin(2)}, dy : {Fin(0 - 1)}]
      \cup [kind : {"ScrollDelta"}, dx : {Fin(0)}, dy : {Fin(0 - 1)}]

\* may_dispatch looking only at the source whose event is ready
may_dispatch_own_source(ss, s) == ss[s].todo = <<>>

\* the loop runs a callback with its exclusive `&mut State`: the callback of
\* source s is entered only when no callback is running
may_dispatch(ss, s) == \A t \in 1..Len(ss) : ss[t].todo = <<>>

\* Ok(EisRequestSourceEvent::Request(request)): process_eis_request is entered
Dispatch(s, r) ==
    /\ nEvents < LoopEvents
    /\ pc = "idle"
    /\ sessions[s].st = "Active"
    /\ may_dispatch(sessions, s)
    /\ LET eff == process_eis_request(r, pointerLoc, seat, activeOutput) IN
         sessions' = [sessions EXCEPT ![s] =
            [@ EXCEPT !.st = after_callback(@, post_action("Request", r)),
                      !.todo = eff.calls,
                      !.serving = nEvents + 1]]
    /\ nEvents' = nEvents + 1
    /\ last' = LastEvent(s, "Request", r, TRUE)
    /\ calls' = <<>>
    /\ wire' = <<>>
    /\ shellOps' = <<>>
    /\ UNCHANGED <<active_connections, nSockets, pointerLoc, seat, activeOutput, eis_state, pc,
                   current, log>>

\* the next injection call of the handler running for source s
InjectNext(s) ==
    /\ sessions[s].todo # <<>>
    /\ LET c == Head(sessions[s].todo) IN
         /\ log' = Append(log, [sess |-> s, ev |-> sessions[s].serving, op |-> c.op])
         /\ calls' = <<c>>
         /\ pointerLoc' = IF c.op = "pointer.motion" THEN [x |-> c.x, y |-> c.y]
                          ELSE pointerLoc
    /\ sessions' = [sessions EXCEPT ![s] = [@ EXCEPT !.todo = Tail(@)]]
    /\ UNCHANGED <<active_connections, nSockets, nEvents, last, seat, activeOutput, wire,
                   shellOps, eis_state, pc, current>>

NextLoop ==
    \/ \E setup \in SetupOutcomes, res \in EisStateNewResults :
          SocketMsg(MaxSockets, setup, res)
    \/ \E s \in Sids, f \in BOOLEAN : LoopIdle /\ Connected(s, f)
    \/ \E s \in Sids, r \in LoopRequests : Dispatch(s, r)
    \/ \E s \in Sids : InjectNext(s)

SpecLoop == Init /\ [][NextLoop]_vars

---------------------------------------------------------------------------
(* Notions used by the properties *)

\* a session in the specification's sense is Closed once its peer asked to
\* disconnect or its stream ended
IsClosed(ss, s) == ss[s].st = "Removed" \/ ss[s].disconnected

\* sessions that are Handshaking or Active, none of them Closed
LiveSessions == {s \in Sids : sessions[s].st \in {"Handshaking", "Active"} /\ ~IsClosed(sessions, s)}

\* registered sources that still take events
OpenSources == {s \in Sids : sessions[s].st \in {"Handshaking", "Active"}}

\* this step ran add_connection for one more socket on the loop thread
AddStep == nSockets' = nSockets + 1 /\ last'.op = "add"

\* this step dispatched one socket event to session s
EventStep(s) == nEvents' = nEvents + 1 /\ last'.op = "event" /\ last'.sess = s

\* this step dispatched a request of session s to process_eis_request
RequestStep(s) == EventStep(s) /\ last'.ev = "Request"

---------------------------------------------------------------------------
(* Admission *)

\* C1: the sessions that are Handshaking or Active are never more than
\* MAX_EIS_CONNECTIONS, and active_connections never exceeds MAX_EIS_CONNECTIONS.
C1_SessionsWithinCap ==
    /\ Cardinality(OpenSources) <= MAX_EIS_CONNECTIONS
    /\ active_connections <= MAX_EIS_CONNECTIONS

\* eight sessions are open and one more socket has been turned away
C1_Witness ==
    /\ Cardinality(OpenSources) = MAX_EIS_CONNECTIONS
    /\ active_connections = MAX_EIS_CONNECTIONS
    /\ last.op = "add"
    /\ last.outcome = "rejected"

\* C2: the step that closes a session (Disconnect request or end of stream)
\* decrements active_connections by exactly one.
C2_CloseReleasesCounter ==
    [][\A s \in Sids :
          (~IsClosed(sessions, s) /\ IsClosed(sessions', s))
             => active_connections' = active_connections - 1]_vars

\* C3: an add_connection call made while fewer than MAX_EIS_CONNECTIONS
\* sessions are live is not rejected by the limit.
C3_AdmitsWhenLiveBelowCap ==
    [][(AddStep /\ Cardinality(LiveSessions) < MAX_EIS_CONNECTIONS)
          => last'.outcome # "rejected"]_vars

C5_RejectedAtCap ==
    [][(AddStep /\ active_connections >= MAX_EIS_CONNECTIONS)
          => /\ last'.outcome = "rejected"
             /\ last'.sess = 0
             /\ sessions' = sessions
             /\ active_connections' = active_connections
             /\ calls' = <<>>]_vars

\* the ninth socket was rejected with eight sessions registered
C5_Witness ==
    /\ last.op = "add"
    /\ last.outcome = "rejected"
    /\ last.seen = MAX_EIS_CONNECTIONS
    /\ Len(sessions) = MAX_EIS_CONNECTIONS

\* C6: once a session has received a Disconnect request or end of stream, no
\* later event of that session is processed: none makes a host injection call
\* or announces a seat.
C6_NothingAfterClose ==
    [][\A s \in Sids :
          (IsClosed(sessions, s) /\ EventStep(s))
             => /\ calls' = <<>>
                /\ sessions'[s].seats = sessions[s].seats]_vars

---------------------------------------------------------------------------
(* Validation in the request translator *)

NonFiniteMotion(r) ==
    \/ r.kind \in {"PointerMotion", "ScrollDelta"} /\ (~is_finite(r.dx) \/ ~is_finite(r.dy))
    \/ r.kind = "PointerMotionAbsolute"
         /\ (~is_finite(r.dx_absolute) \/ ~is_finite(r.dy_absolute))

FiniteMotion(r) ==
    \/ r.kind \in {"PointerMotion", "ScrollDelta"} /\ is_finite(r.dx) /\ is_finite(r.dy)
    \/ r.kind = "PointerMotionAbsolute" /\ is_finite(r.dx_absolute) /\ is_finite(r.dy_absolute)

\* 0x2FF = 767
CodeOutOfRange(r) ==
    \/ r.kind = "KeyboardKey" /\ r.key > 767
    \/ r.kind = "Button" /\ r.button > 767

\* C7: a KeyboardKey request with keycode > 0x2FF or a Button request with
\* button code > 0x2FF makes no host injection call, and its session stays Active.
C7_OutOfRangeCodeDropped ==
    (last.ev = "Request" /\ CodeOutOfRange(last.req))
       => /\ calls = <<>>
          /\ sessions[last.sess].st = "Active"

\* a key with keycode 0x300 was dropped
C7_Witness ==
    /\ last.ev = "Request"
    /\ last.req.kind = "KeyboardKey"
    /\ last.req.key = 768
    /\ calls = <<>>
    /\ sessions[last.sess].st = "Active"

\* C8: a relative motion, absolute motion or scroll request with a NaN or
\* infinite component makes no host injection call and leaves the pointer
\* location unchanged; the session stays Active, and a valid motion or scroll
\* request that follows on it is injected.
C8_NonFiniteDropped ==
    [][\A s \in Sids :
          /\ (RequestStep(s) /\ NonFiniteMotion(last'.req))
                => /\ calls' = <<>>
                   /\ pointerLoc' = pointerLoc
                   /\ sessions'[s].st = "Active"
          /\ (/\ last.ev = "Request" /\ last.sess = s /\ NonFiniteMotion(last.req)
              /\ RequestStep(s) /\ FiniteMotion(last'.req))
                => /\ Len(calls') = 2
                   /\ calls'[1].op \in {"pointer.motion", "pointer.axis"}
                   /\ calls'[2].op = "pointer.frame"]_vars

\* a scroll with an infinite dy was dropped after the pointer had been moved
C8_Witness ==
    /\ last.ev = "Request"
    /\ last.req.kind = "ScrollDelta"
    /\ last.req.dx = Fin(0)
    /\ last.req.dy = NegInf
    /\ calls = <<>>
    /\ pointerLoc # [x |-> 0, y |-> 0]
    /\ sessions[last.sess].st = "Active"

\* C9: TouchDown and TouchMotion with a touch identifier > 256 make no host
\* injection call; TouchUp and TouchCancel make exactly the up (or cancel) call
\* and a frame commit, whatever the identifier.
C9_TouchIdentifiers ==
    last.ev = "Request"
       => /\ (last.req.kind \in {"TouchDown", "TouchMotion"} /\ last.req.touch_id > 256)
                => calls = <<>>
          /\ last.req.kind = "TouchUp"
                => calls = << [op |-> "touch.up", slot |-> last.req.touch_id],
                              [op |-> "touch.frame"] >>
          /\ last.req.kind = "TouchCancel"
                => calls = << [op |-> "touch.cancel"], [op |-> "touch.frame"] >>

\* a TouchUp for identifier 257, never put down, reached the host
C9_Witness ==
    /\ last.ev = "Request"
    /\ last.req.kind = "TouchUp"
    /\ last.req.touch_id = 257
    /\ Len(calls) = 2
    /\ calls[1].op = "touch.up"

\* the outputs a relative motion to `position` may be clamped to: the first
\* output that contains the position, else the seat's active output
ChosenOutputs(position) ==
    IF \E o \in OutputIds : contains(Outputs[o], position)
    THEN {o \in OutputIds : /\ contains(Outputs[o], position)
                            /\ \A j \in 1..(o - 1) : ~contains(Outputs[j], position)}
    ELSE {activeOutput}

\* C10: after a relative motion with finite deltas, the location injected (and
\* left as pointer location) lies within the chosen output:
\* x0 <= x <= x0+w-1 and y0 <= y <= y0+h-1.
C10_RelativeMotionClamped ==
    [][\A s \in Sids :
          (/\ RequestStep(s)
           /\ last'.req.kind = "PointerMotion"
           /\ is_finite(last'.req.dx) /\ is_finite(last'.req.dy))
             => LET position == [x |-> pointerLoc.x + last'.req.dx.v,
                                 y |-> pointerLoc.y + last'.req.dy.v]
                IN /\ Len(calls') = 2
                   /\ calls'[1].op = "pointer.motion"
                   /\ pointerLoc' = [x |-> calls'[1].x, y |-> calls'[1].y]
                   /\ \E o \in ChosenOutputs(position) :
                        /\ Sub * Outputs[o].x0 <= pointerLoc'.x
                        /\ pointerLoc'.x <= Sub * (Outputs[o].x0 + Outputs[o].w - 1)
                        /\ Sub * Outputs[o].y0 <= pointerLoc'.y
                        /\ pointerLoc'.y <= Sub * (Outputs[o].y0 + Outputs[o].h - 1)]_vars

\* a motion far to the right, which no output contains, left the pointer on the
\* last pixel column of the active output
C10_Witness ==
    /\ last.ev = "Request"
    /\ last.req.kind = "PointerMotion"
    /\ last.req.dx = Fin(Far)
    /\ is_finite(last.req.dy)
    /\ Len(calls) = 2
    /\ calls[1].output = activeOutput
    /\ pointerLoc.x = Sub * (Outputs[activeOutput].x0 + Outputs[activeOutput].w - 1)

---------------------------------------------------------------------------
(* Absolute motion *)

\* location p lies on the pixels of an output of geometry g
WithinOutput(g, p) ==
    /\ Sub * g.x0 <= p.x
    /\ p.x <= Sub * (g.x0 + g.w - 1)
    /\ Sub * g.y0 <= p.y
    /\ p.y <= Sub * (g.y0 + g.h - 1)

\* C11: after an absolute motion with finite x, y, the location injected (and
\* left as pointer location) lies within the geometry of some output.
C11_AbsoluteMotionClamped ==
    (/\ last.ev = "Request"
     /\ last.req.kind = "PointerMotionAbsolute"
     /\ is_finite(last.req.dx_absolute) /\ is_finite(last.req.dy_absolute))
       => /\ Len(calls) = 2
          /\ calls[1].op = "pointer.motion"
          /\ pointerLoc = [x |-> calls[1].x, y |-> calls[1].y]
          /\ \E o \in OutputIds : WithinOutput(Outputs[o], pointerLoc)

---------------------------------------------------------------------------
(* Bind and the keymap *)

\* positions of the operations named op in the sequence w
OpPositions(w, op) == {i \in 1..Len(w) : w[i].op = op}

\* the provider returned a keymap: the text and its terminator were written
KeymapProduced(w) ==
    /\ \E i \in OpPositions(w, "memfd.write_text") : w[i].ok
    /\ \E i \in OpPositions(w, "memfd.write_nul") : w[i].ok

BindProcessed == last.ev = "Request" /\ last.req.kind = "Bind"

\* C12: for a Bind whose mask includes keyboard and whose keymap was produced,
\* the keymap is sent exactly once, before the device is resumed, after the text
\* and one terminator byte were written and the seal was attempted, and with
\* size = text length + 1.
C12_KeymapBeforeResumed ==
    (BindProcessed /\ "Keyboard" \in last.req.capabilities /\ KeymapProduced(wire))
       => /\ Cardinality(OpPositions(wire, "keyboard.keymap")) = 1
          /\ \A k \in OpPositions(wire, "keyboard.keymap") :
               /\ \A i \in OpPositions(wire, "device.resumed") : k < i
               /\ \E t \in OpPositions(wire, "memfd.write_text"),
                     z \in OpPositions(wire, "memfd.write_nul"),
                     c \in OpPositions(wire, "memfd.seal") :
                    /\ t < z /\ z < c /\ c < k
                    /\ wire[z].n = 1
                    /\ wire[k].n = wire[t].n + 1
          /\ OpPositions(wire, "device.resumed") # {}

\* a keyboard device got its keymap although the seal was refused
C12_Witness ==
    /\ BindProcessed
    /\ last.req.capabilities = {"Keyboard"}
    /\ \E c \in OpPositions(wire, "memfd.seal") : ~wire[c].ok
    /\ OpPositions(wire, "keyboard.keymap") # {}
    /\ OpPositions(wire, "device.resumed") # {}

\* C13: every Bind creates one device and resumes it once, whether or not the
\* keymap provider returned a keymap; without a keymap no keymap is sent; the
\* session stays Active.
C13_BindSurvivesKeymapFailure ==
    BindProcessed
       => /\ Cardinality(OpPositions(wire, "seat.add_device")) = 1
          /\ Cardinality(OpPositions(wire, "device.resumed")) = 1
          /\ ~KeymapProduced(wire) => OpPositions(wire, "keyboard.keymap") = {}
          /\ sessions[last.sess].st = "Active"
          /\ sessions[last.sess].devices >= 1

\* the keymap compilation failed and the device was resumed all the same
C13_Witness ==
    /\ BindProcessed
    /\ "Keyboard" \in last.req.capabilities
    /\ wire[1].op = "xkb.compile" /\ ~wire[1].ok
    /\ Cardinality(OpPositions(wire, "device.resumed")) = 1
    /\ sessions[last.sess].st = "Active"

---------------------------------------------------------------------------
(* Errors *)

\* a key request that the translator injects
ValidKey(r) == r.kind = "KeyboardKey" /\ r.key <= 767

\* C15: an error event on an Active session leaves it Active and the counter
\* unchanged, and makes no host call; a valid key request that follows on that
\* session is injected.
C15_FrameErrorSkipped ==
    [][\A s \in Sids :
          /\ (EventStep(s) /\ last'.ev = "Err" /\ sessions[s].st = "Active")
                => /\ sessions'[s].st = "Active"
                   /\ active_connections' = active_connections
                   /\ calls' = <<>>
          /\ (/\ last.ev = "Err" /\ last.sess = s /\ sessions[s].seats = 1
              /\ RequestStep(s) /\ ValidKey(last'.req))
                => /\ Len(calls') = 1
                   /\ calls'[1].op = "keyboard.input"]_vars

\* an Active session has just had an error event
C15_Witness ==
    /\ last.ev = "Err"
    /\ sessions[last.sess].st = "Active"
    /\ sessions[last.sess].seats = 1

---------------------------------------------------------------------------
(* One callback at a time *)

\* the request an injection call belongs to
Tag(e) == <<e.sess, e.ev>>

\* C16: the injection calls of one request are contiguous in the order of host
\* calls: no call of another session's request comes between them, and at no
\* time have two sessions' handlers calls left to make.
C16_NoInterleaving ==
    /\ \A i \in 1..Len(log) : \A k \in i..Len(log) :
          Tag(log[i]) = Tag(log[k])
             => \A j \in i..k : Tag(log[j]) = Tag(log[i])
    /\ Cardinality({s \in Sids : sessions[s].todo # <<>>}) <= 1

\* a motion with its frame commit for one session, then a scroll with its
\* frame commit for another
C16_Witness ==
    /\ Len(log) = 4
    /\ log[1].sess # log[3].sess
    /\ log[1].op = "pointer.motion" /\ log[2].op = "pointer.frame"
    /\ log[3].op = "pointer.axis" /\ log[4].op = "pointer.frame"
    /\ Tag(log[1]) = Tag(log[2]) /\ Tag(log[3]) = Tag(log[4])

---------------------------------------------------------------------------
(* Key injection and lock order *)

\* C17: a KeyboardKey request with keycode <= 0x2FF makes exactly one host
\* call, keyboard.input with that keycode, Pressed iff the request's state is
\* Press and Released otherwise.
C17_ValidKeyInjectedOnce ==
    (last.ev = "Request" /\ ValidKey(last.req) /\ seat.keyboard)
       => /\ Len(calls) = 1
          /\ calls[1].op = "keyboard.input"
          /\ calls[1].key = last.req.key
          /\ last.req.state = "Press" => calls[1].state = "Pressed"
          /\ last.req.state # "Press" => calls[1].state = "Released"

\* a release of the last valid keycode was injected
C17_Witness ==
    /\ last.ev = "Request"
    /\ last.req.kind = "KeyboardKey"
    /\ last.req.key = 767
    /\ last.req.state = "Released"
    /\ Len(calls) = 1
    /\ calls[1].state = "Released"

LockOps == {"shell.read", "shell.drop"}

\* the shell read lock is held just before position i of the sequence w
LockHeldBefore(w, i) ==
    Cardinality({j \in 1..(i - 1) : w[j] = "shell.read"})
       > Cardinality({j \in 1..(i - 1) : w[j] = "shell.drop"})

\* C18: no host injection call is made while the shell read lock taken by the
\* handler is still held.
C18_LockReleasedBeforeInjection ==
    \A i \in 1..Len(shellOps) :
       shellOps[i] \notin LockOps => ~LockHeldBefore(shellOps, i)

\* a relative motion read the shell, released it and then injected
C18_Witness ==
    /\ last.ev = "Request"
    /\ last.req.kind = "PointerMotion"
    /\ Len(shellOps) = 4
    /\ shellOps[1] = "shell.read"
    /\ shellOps[3] = "pointer.motion"
    /\ Len(calls) = 2

---------------------------------------------------------------------------
(* Setup failures and the seat *)

\* C19: when the context creation or insert_source fails, add_connection leaves
\* active_connections at its value before the call and registers no session.
C19_SetupFailureReleases ==
    [][(AddStep /\ last'.outcome \in {"ctx_failed", "insert_failed"})
          => /\ active_connections' = active_connections
             /\ sessions' = sessions
             /\ last'.sess = 0]_vars

\* insert_source failed for the second socket; one session is counted
C19_Witness ==
    /\ last.op = "add"
    /\ last.outcome = "insert_failed"
    /\ last.seen = 1
    /\ active_connections = 1
    /\ Len(sessions) = 1

\* C20: a session announces at most one seat, only in the step of its Connected
\* event, with the capabilities keyboard, pointer, pointer-absolute, button,
\* scroll and touch; after Connected the session is Active even when the flush
\* of the announcement failed.
C20_OneSeatOnConnected ==
    [][/\ \A s \in 1..Len(sessions') :
            /\ sessions'[s].seats <= 1
            /\ sessions'[s].st = "Handshaking" => sessions'[s].seats = 0
       /\ \A s \in Sids :
            /\ sessions'[s].seats # sessions[s].seats
                  => /\ EventStep(s) /\ last'.ev = "Connected"
                     /\ sessions[s].seats = 0
                     /\ Len(wire') = 2
                     /\ wire'[1].op = "connection.add_seat"
                     /\ wire'[1].caps = {"Keyboard", "Pointer", "PointerAbsolute",
                                         "Button", "Scroll", "Touch"}
                     /\ wire'[2].op = "connection.flush"
            /\ (EventStep(s) /\ last'.ev = "Connected")
                  => /\ sessions'[s].seats = 1
                     /\ sessions'[s].st = "Active"]_vars

\* the flush of the seat announcement failed and the session is Active
C20_Witness ==
    /\ last.ev = "Connected"
    /\ ~last.flush
    /\ sessions[last.sess].st = "Active"
    /\ sessions[last.sess].seats = 1
    /\ Len(wire) = 2 /\ ~wire[2].ok

---------------------------------------------------------------------------
(* The lazily created EisState *)

\* C21: EisState is created at most once, by the first delivered socket; every
\* later socket is added to that instance and meets its admission counter; a
\* socket that finds no EisState after the creation attempt adds no connection.
C21_LazySingleton ==
    [][AddStep
          => /\ eis_state'.made <= 1
             /\ eis_state.some
                   => /\ eis_state' = eis_state
                      /\ last'.seen = active_connections
             /\ ~eis_state.some /\ eis_state'.some
                   => /\ nSockets = 0
                      /\ eis_state'.made = 1
                      /\ last'.seen = 0
             /\ ~eis_state'.some
                   => /\ sessions' = sessions
                      /\ active_connections' = active_connections
                      /\ last'.outcome = "no_state"]_vars

\* the second socket was admitted on the EisState made for the first
C21_Witness ==
    /\ nSockets = 2
    /\ eis_state = [some |-> TRUE, made |-> 1]
    /\ last.op = "add" /\ last.outcome = "admitted" /\ last.seen = 1
    /\ active_connections = 2
    /\ Len(sessions) = 2

---------------------------------------------------------------------------
(* Scroll *)

\* C22: a scroll request with finite dx and dy makes exactly two host calls,
\* one axis frame and then one frame commit; the axis frame has a vertical
\* value (dy) iff dy # 0 and a horizontal value (dx) iff dx # 0.
C22_ScrollAxisFrame ==
    (/\ last.ev = "Request" /\ last.req.kind = "ScrollDelta"
     /\ is_finite(last.req.dx) /\ is_finite(last.req.dy)
     /\ seat.pointer)
       => /\ Len(calls) = 2
          /\ calls[1].op = "pointer.axis"
          /\ calls[2].op = "pointer.frame"
          /\ last.req.dy.v # 0 => calls[1].vertical = <<last.req.dy.v>>
          /\ last.req.dy.v = 0 => calls[1].vertical = <<>>
          /\ last.req.dx.v # 0 => calls[1].horizontal = <<last.req.dx.v>>
          /\ last.req.dx.v = 0 => calls[1].horizontal = <<>>

\* a scroll up by one with no horizontal part
C22_Witness ==
    /\ last.ev = "Request"
    /\ last.req.kind = "ScrollDelta"
    /\ last.req.dx = Fin(0)
    /\ last.req.dy = Fin(0 - 1)
    /\ Len(calls) = 2
    /\ calls[1].vertical = <<0 - 1>>
    /\ calls[1].horizontal = <<>>

---------------------------------------------------------------------------
(* Device bookkeeping *)

BookkeepingKinds == {"DeviceStartEmulating", "DeviceStopEmulating", "Frame"}

\* an input request that passes the checks of its handler
ValidInput(r) ==
    \/ r.kind = "KeyboardKey" /\ r.key <= 767
    \/ r.kind = "Button" /\ r.button <= 767
    \/ r.kind = "PointerMotion" /\ is_finite(r.dx) /\ is_finite(r.dy)
    \/ r.kind = "PointerMotionAbsolute"
          /\ is_finite(r.dx_absolute) /\ is_finite(r.dy_absolute)
    \/ r.kind = "ScrollDelta" /\ is_finite(r.dx) /\ is_finite(r.dy)
    \/ r.kind \in {"TouchDown", "TouchMotion"}
          /\ r.touch_id <= 256 /\ is_finite(r.x) /\ is_finite(r.y)
    \/ r.kind \in {"TouchUp", "TouchCancel"}

\* C23: DeviceStartEmulating, DeviceStopEmulating and Frame make no host call
\* and change no state; a valid input request is injected on a session that has
\* bound no device, as the first request after Connected, and right after a
\* DeviceStopEmulating.
C23_InjectionNotGated ==
    [][\A s \in Sids :
          /\ (RequestStep(s) /\ last'.req.kind \in BookkeepingKinds)
                => /\ calls' = <<>>
                   /\ sessions' = sessions
                   /\ pointerLoc' = pointerLoc
                   /\ active_connections' = active_connections
                   /\ seat' = seat /\ activeOutput' = activeOutput
          /\ (/\ RequestStep(s) /\ ValidInput(last'.req)
              /\ \/ sessions[s].devices = 0
                 \/ last.ev = "Connected" /\ last.sess = s
                 \/ last.ev = "Request" /\ last.sess = s
                       /\ last.req.kind = "DeviceStopEmulating")
                => /\ Len(calls') >= 1
                   /\ sessions'[s].st = "Active"]_vars

\* a button press was injected for a session that has bound no device
C23_Witness ==
    /\ last.ev = "Request"
    /\ last.req.kind = "Button"
    /\ last.req.button = 272
    /\ sessions[last.sess].devices = 0
    /\ Len(calls) >= 1
    /\ calls[1].op = "pointer.button"

====
